---------------------------- MODULE Spec2Model ----------------------------
(***************************************************************************)
(* filestatrec: the snapshot-file subsystem (src/src/statfile.rs) and the  *)
(* two commands built on it (src/src/main.rs).                             *)
(*                                                                         *)
(* A byte string is a sequence of integers in 0..255.  Four specifications *)
(* share the definitions below:                                            *)
(*   SpecCodec   escape / unescape on bounded byte strings                 *)
(*   SpecParse   parse_line on bounded lines                               *)
(*   SpecApply   StatApply::apply on one record, path and follow flag      *)
(*   Spec        the commands add and apply against a small file system,   *)
(*               write_stat_file taken step by step, with I/O errors and   *)
(*               crashes                                                   *)
(***************************************************************************)
EXTENDS Integers, Sequences, FiniteSets, TLC

(***************************************************************************)
(* Bytes and byte strings                                                  *)
(***************************************************************************)

\* The printable ASCII characters in code order: 0x20 (space) to 0x5f, and
\* 0x61 to 0x7e.
PrintableLow ==
    " !\"#$%&'()*+,-./0123456789:;<=>?@ABCDEFGHIJKLMNOPQRSTUVWXYZ[\\]^_"

PrintableHigh == "abcdefghijklmnopqrstuvwxyz{|}~"

\* The byte value of a one-character string (a byte literal b'c').
Ord(c) ==
    IF c = "\t" THEN 9
    ELSE IF c = "\n" THEN 10
    ELSE IF \E i \in 1..Len(PrintableLow) : SubSeq(PrintableLow, i, i) = c
      THEN 31 + (CHOOSE i \in 1..Len(PrintableLow) : SubSeq(PrintableLow, i, i) = c)
    ELSE 96 + (CHOOSE i \in 1..Len(PrintableHigh) : SubSeq(PrintableHigh, i, i) = c)

\* The byte string of a string literal (b"...").
Bytes(s) == [i \in 1..Len(s) |-> Ord(SubSeq(s, i, i))]

\* All sequences over S of length at most n.
SeqsUpTo(S, n) == UNION {[1..k -> S] : k \in 0..n}

\* slice::split(|&b| b == sep): the pieces between separators, in order;
\* always at least one piece, empty pieces kept.
Split(s, sep) ==
    LET at == {i \in 1..Len(s) : s[i] = sep}
        n == Cardinality(at)
        pos(k) == CHOOSE i \in at : Cardinality({j \in at : j < i}) = k - 1
        first(k) == IF k = 1 THEN 1 ELSE pos(k - 1) + 1
        last(k) == IF k = n + 1 THEN Len(s) ELSE pos(k) - 1
    IN  [k \in 1..(n + 1) |-> SubSeq(s, first(k), last(k))]

\* Ord for [u8]: lexicographic on byte values, a proper prefix first.
RECURSIVE BytesLess(_, _)
BytesLess(a, b) ==
    IF Len(b) = 0 THEN FALSE
    ELSE IF Len(a) = 0 THEN TRUE
    ELSE IF a[1] # b[1] THEN a[1] < b[1]
    ELSE BytesLess(Tail(a), Tail(b))

(***************************************************************************)
(* Path codec: escape and unescape                                         *)
(***************************************************************************)

\* HEXDIGIT: the lowercase hexadecimal digits, indexed from 0.
HEXDIGIT == Bytes("0123456789abcdef")

IsCont(b) == b >= 128 /\ b <= 191

\* str::from_utf8(name).is_ok(): well-formed UTF-8 (no overlong forms, no
\* surrogates, nothing above U+10FFFF).
RECURSIVE Utf8Valid(_)
Utf8Valid(s) ==
    IF Len(s) = 0 THEN TRUE
    ELSE LET b == s[1]
             n == Len(s)
         IN  IF b < 128 THEN Utf8Valid(Tail(s))
             ELSE IF b >= 194 /\ b <= 223
               THEN n >= 2 /\ IsCont(s[2]) /\ Utf8Valid(SubSeq(s, 3, n))
             ELSE IF b >= 224 /\ b <= 239
               THEN /\ n >= 3
                    /\ \/ b = 224 /\ s[2] >= 160 /\ s[2] <= 191
                       \/ b = 237 /\ s[2] >= 128 /\ s[2] <= 159
                       \/ b \notin {224, 237} /\ IsCont(s[2])
                    /\ IsCont(s[3])
                    /\ Utf8Valid(SubSeq(s, 4, n))
             ELSE IF b >= 240 /\ b <= 244
               THEN /\ n >= 4
                    /\ \/ b = 240 /\ s[2] >= 144 /\ s[2] <= 191
                       \/ b = 244 /\ s[2] >= 128 /\ s[2] <= 143
                       \/ b \notin {240, 244} /\ IsCont(s[2])
                    /\ IsCont(s[3])
                    /\ IsCont(s[4])
                    /\ Utf8Valid(SubSeq(s, 5, n))
             ELSE FALSE

\* u8::is_ascii_control: 0x00..0x1f and 0x7f.
IsAsciiControl(c) == c < 32 \/ c = 127

\* The closure escape_byte of escape, with escape_high as a parameter.
\* (EscapeByteAnyHigh: the same without the escape_high test;
\* EscapeByteNoBackslash: the same without the test for b'\\'.)
EscapeByteAnyHigh(c, escape_high) == IsAsciiControl(c) \/ c = 92 \/ c >= 128

EscapeByteNoBackslash(c, escape_high) ==
    IsAsciiControl(c) \/ (escape_high /\ c >= 128)

EscapeByte(c, escape_high) ==
    IsAsciiControl(c) \/ c = 92 \/ (escape_high /\ c >= 128)

\* The loop body of escape for one byte.
EscapeOne(c, escape_high) ==
    IF c = 92 THEN <<92, 92>>
    ELSE IF EscapeByte(c, escape_high)
      THEN <<92, 120, HEXDIGIT[(c \div 16) + 1], HEXDIGIT[(c % 16) + 1]>>
    ELSE <<c>>

RECURSIVE EscapeAll(_, _)
EscapeAll(s, escape_high) ==
    IF Len(s) = 0 THEN <<>>
    ELSE EscapeOne(s[1], escape_high) \o EscapeAll(Tail(s), escape_high)

\* escape(name)
escape(name) ==
    LET escape_high == ~Utf8Valid(name)
        count == Cardinality({i \in 1..Len(name) : EscapeByte(name[i], escape_high)})
    IN  IF count > 0 THEN EscapeAll(name, escape_high) ELSE name

\* char::to_digit(16) of a byte taken as a char: 0..15, or -1 for None.
ToDigit16(b) ==
    IF b >= 48 /\ b <= 57 THEN b - 48
    ELSE IF b >= 97 /\ b <= 102 THEN b - 87
    ELSE IF b >= 65 /\ b <= 70 THEN b - 55
    ELSE -1

\* The results of the fallible functions: Ok(val) or Err(kind).
Ok(v) == [ok |-> TRUE, val |-> v]
Err(k) == [ok |-> FALSE, kind |-> k]

\* The while loop of unescape from position i, buf being what is decoded.
RECURSIVE UnescapeFrom(_, _, _)
UnescapeFrom(s, i, buf) ==
    IF i > Len(s) THEN Ok(buf)
    ELSE IF s[i] # 92 THEN UnescapeFrom(s, i + 1, Append(buf, s[i]))
    ELSE IF i + 1 > Len(s) THEN Err("InvalidData")
    ELSE IF s[i + 1] = 92 THEN UnescapeFrom(s, i + 2, Append(buf, 92))
    ELSE IF s[i + 1] = 120
      THEN IF i + 3 > Len(s) THEN Err("InvalidData")
           ELSE LET hi == ToDigit16(s[i + 2])
                    lo == ToDigit16(s[i + 3])
                IN  IF hi >= 0 /\ lo >= 0
                      THEN UnescapeFrom(s, i + 4, Append(buf, (hi * 16 + lo) % 256))
                    ELSE Err("InvalidData")
    ELSE Err("InvalidData")

\* unescape(name)
unescape(name) ==
    IF \E i \in 1..Len(name) : name[i] = 92
      THEN UnescapeFrom(name, 1, <<>>)
    ELSE Ok(name)

(***************************************************************************)
(* Record codec: make_line, parse_line                                     *)
(***************************************************************************)

None == [some |-> FALSE]
Some(v) == [some |-> TRUE, val |-> v]

\* The digits of n >= 0 in the given radix, most significant first, as
\* ASCII bytes (at least one digit).
RECURSIVE Digits(_, _)
Digits(n, radix) ==
    IF n < radix THEN <<48 + n>>
    ELSE Append(Digits(n \div radix, radix), 48 + (n % radix))

\* Zero padding on the left up to width (the 0 flag of format!).
RECURSIVE ZeroPad(_, _)
ZeroPad(s, width) == IF Len(s) >= width THEN s ELSE ZeroPad(<<48>> \o s, width)

\* format!("{}", n) of a signed integer.
FormatDecimal(n) == IF n < 0 THEN <<45>> \o Digits(-n, 10) ELSE Digits(n, 10)

\* The byte strings the formats are made of.
ModeKey == Bytes("mode=")
MtimeKey == Bytes("mtime=")
TabModeKey == Bytes("\tmode=")
TabMtimeKey == Bytes("\tmtime=")
Dot == Bytes(".")
DotDot == Bytes("..")

\* make_line(name, metadata), metadata giving mode(), mtime(), mtime_nsec().
make_line(name, metadata) ==
    escape(name) \o TabModeKey \o ZeroPad(Digits(metadata.mode, 8), 3)
                 \o TabMtimeKey \o FormatDecimal(metadata.mtime.sec)
                 \o Dot \o ZeroPad(Digits(metadata.mtime.nsec, 10), 9)

\* The value of a non-empty run of digits below the radix, or -1 when a
\* byte is no such digit.  (The inputs of the model are short: none
\* overflows the integer type parsed into.)
RECURSIVE DigitsValue(_, _, _)
DigitsValue(s, radix, acc) ==
    IF Len(s) = 0 THEN acc
    ELSE IF s[1] >= 48 /\ s[1] < 48 + radix
      THEN DigitsValue(Tail(s), radix, acc * radix + (s[1] - 48))
    ELSE -1

\* u32::from_str_radix(s, radix): an optional '+', then one digit or more.
ParseUnsigned(s, radix) ==
    LET digits == IF Len(s) > 0 /\ s[1] = 43 THEN Tail(s) ELSE s
        v == DigitsValue(digits, radix, 0)
    IN  IF Len(digits) = 0 \/ v < 0 THEN Err("InvalidData") ELSE Ok(v)

\* str::parse for a signed integer: an optional '+' or '-', then one
\* decimal digit or more.
ParseSigned(s) ==
    LET signed == Len(s) > 0 /\ s[1] \in {43, 45}
        digits == IF signed THEN Tail(s) ELSE s
        v == DigitsValue(digits, 10, 0)
    IN  IF Len(digits) = 0 \/ v < 0 THEN Err("InvalidData")
        ELSE IF signed /\ s[1] = 45 THEN Ok(-v)
        ELSE Ok(v)

\* StatApply::new()
NewStatApply == [mode |-> None, mtime |-> None]

\* StatApply::set_mode(data): the record with the mode set, or an error.
set_mode(apply, data) ==
    IF ~Utf8Valid(data) THEN Err("InvalidData")
    ELSE LET m == ParseUnsigned(data, 8)
         IN  IF m.ok THEN Ok([apply EXCEPT !.mode = Some(m.val)])
             ELSE Err("InvalidData")

\* StatApply::set_mtime(data): the record with the mtime set, or an error.
set_mtime(apply, data) ==
    IF ~Utf8Valid(data) THEN Err("InvalidData")
    ELSE LET parts == Split(data, 46)
             sec == ParseSigned(parts[1])
         IN  IF ~sec.ok THEN Err("InvalidData")
             ELSE IF Len(parts) = 1
               THEN Ok([apply EXCEPT
                          !.mtime = Some([sec |-> sec.val, nsec |-> 0])])
             ELSE IF Len(parts) = 2 /\ Len(parts[2]) = 9
               THEN LET nsec == ParseSigned(parts[2])
                    IN  IF nsec.ok
                          THEN Ok([apply EXCEPT
                                     !.mtime = Some([sec |-> sec.val,
                                                     nsec |-> nsec.val])])
                        ELSE Err("InvalidData")
             ELSE Err("InvalidData")

\* item.split_at(position of the first '=' plus one, or item.len()).
KeyLen(item) ==
    IF \E i \in 1..Len(item) : item[i] = 61
      THEN CHOOSE i \in 1..Len(item) :
             item[i] = 61 /\ \A j \in 1..(i - 1) : item[j] # 61
    ELSE Len(item)

\* The loop of parse_line over the items from position i on.
RECURSIVE ParseItems(_, _, _)
ParseItems(items, i, apply) ==
    IF i > Len(items) THEN Ok(apply)
    ELSE LET item == items[i]
             key == SubSeq(item, 1, KeyLen(item))
             data == SubSeq(item, KeyLen(item) + 1, Len(item))
             r == IF key = ModeKey THEN set_mode(apply, data)
                  ELSE IF key = MtimeKey THEN set_mtime(apply, data)
                  ELSE Ok(apply)
         IN  IF r.ok THEN ParseItems(items, i + 1, r.val) ELSE r

\* parse_line(line): the items after the first tab-separated field.
parse_line(line) == ParseItems(Split(line, 9), 2, NewStatApply)

(***************************************************************************)
(* Snapshot store: the table and the snapshot file                         *)
(***************************************************************************)

\* StatFile, a BTreeMap from path to line, as the sequence of its entries
\* <<path, line>> in iteration order: strictly increasing paths.
\* The position at which key is, or is to be inserted.
\* (TablePositionEnd: the position after the last entry with another key,
\* that is, insertion order instead of key order.)
TablePositionEnd(t, key) ==
    IF \E i \in 1..Len(t) : t[i][1] = key
      THEN CHOOSE i \in 1..Len(t) : t[i][1] = key
    ELSE Len(t) + 1

TablePosition(t, key) ==
    1 + Cardinality({i \in 1..Len(t) : BytesLess(t[i][1], key)})

TableHas(t, key) == \E i \in 1..Len(t) : t[i][1] = key

\* BTreeMap::get
TableGet(t, key) ==
    IF TableHas(t, key)
      THEN Some((t[CHOOSE i \in 1..Len(t) : t[i][1] = key])[2])
    ELSE None

\* BTreeMap::insert: the value of an existing key is replaced.
TableInsert(t, key, line) ==
    LET p == TablePosition(t, key)
    IN  IF TableHas(t, key)
          THEN [i \in 1..Len(t) |-> IF t[i][1] = key THEN <<key, line>> ELSE t[i]]
        ELSE SubSeq(t, 1, p - 1) \o << <<key, line>> >> \o SubSeq(t, p, Len(t))

\* extract_name(line): the entry <<unescaped first field, the line itself>>.
\* (ExtractNameRebuilt: the entry keeps only the escaped path of the line.)
ExtractNameRebuilt(line) ==
    LET name == unescape(Split(line, 9)[1])
    IN  IF name.ok THEN Ok(<<name.val, Split(line, 9)[1]>>) ELSE name

extract_name(line) ==
    LET name == unescape(Split(line, 9)[1])
    IN  IF name.ok THEN Ok(<<name.val, line>>) ELSE name

\* The non-empty lines of the file, in file order.
NonEmptyLines(data) == SelectSeq(Split(data, 10), LAMBDA l : Len(l) > 0)

\* collect() into Result<BTreeMap>: the first error ends it; of two lines
\* with one path the later stays.
RECURSIVE CollectEntries(_, _, _)
CollectEntries(lines, i, t) ==
    IF i > Len(lines) THEN Ok(t)
    ELSE LET e == extract_name(lines[i])
         IN  IF e.ok THEN CollectEntries(lines, i + 1,
                                         TableInsert(t, e.val[1], e.val[2]))
             ELSE e

\* parse_stat_file(data)
parse_stat_file(data) == CollectEntries(NonEmptyLines(data), 1, <<>>)

\* What write_stat_file writes for the entries from i on: each value and a
\* newline.
RECURSIVE EntryBytes(_, _)
EntryBytes(t, i) ==
    IF i > Len(t) THEN <<>> ELSE t[i][2] \o <<10>> \o EntryBytes(t, i + 1)

(***************************************************************************)
(* The file system's metadata, and the Metadata Applier                    *)
(***************************************************************************)

\* An entry of the tree: a regular file or a symbolic link with its st_mode
\* and times, or nothing.  A name outside the domain names nothing.
NoEntry == [kind |-> "none", mode |-> 0, atime |-> None, mtime |-> None,
            target |-> <<>>]

FileEntry(mode, mtime) ==
    [kind |-> "file", mode |-> mode, atime |-> Some(mtime),
     mtime |-> Some(mtime), target |-> <<>>]

LinkEntry(target, mtime) ==
    [kind |-> "link", mode |-> 41471, atime |-> Some(mtime),
     mtime |-> Some(mtime), target |-> target]

Exists(tree, name) == name \in DOMAIN tree /\ tree[name].kind # "none"

\* Path resolution of the *at calls: the name of the entry meant, following
\* a symbolic link in the last component unless nofollow.
Resolve(tree, name, nofollow) ==
    IF ~Exists(tree, name) THEN Err("NotFound")
    ELSE IF tree[name].kind = "link" /\ ~nofollow
      THEN IF Exists(tree, tree[name].target) THEN Ok(tree[name].target)
           ELSE Err("NotFound")
    ELSE Ok(name)

\* std::fs::metadata (follow) and std::fs::symlink_metadata (no follow).
ReadMetadata(tree, name, follow) ==
    LET r == Resolve(tree, name, ~follow)
    IN  IF r.ok THEN Ok([mode |-> tree[r.val].mode, mtime |-> tree[r.val].mtime.val])
        ELSE r

\* chmodat(CWD, name, mode, flags): the tree after the call, or the error.
\* fchmodat refuses AT_SYMLINK_NOFOLLOW.
chmodat(tree, name, mode, nofollow) ==
    LET r == Resolve(tree, name, nofollow)
    IN  IF nofollow THEN Err("Unsupported")
        ELSE IF ~r.ok THEN r
        ELSE Ok([tree EXCEPT ![r.val].mode = (@ \div 512) * 512 + mode])

\* utimensat(CWD, name, times, flags), with both times set to one value: the
\* tree after the call, or the error.  A nanosecond count outside
\* 0..999999999 is refused.
utimensat(tree, name, time, nofollow) ==
    LET r == Resolve(tree, name, nofollow)
    IN  IF time.nsec < 0 \/ time.nsec > 999999999 THEN Err("InvalidInput")
        ELSE IF ~r.ok THEN r
        ELSE Ok([tree EXCEPT ![r.val].atime = Some(time),
                             ![r.val].mtime = Some(time)])

\* StatApply::is_link: (mode & 0o170000) == 0o120000.
\* (IsLinkNever: the mode's file type is not looked at.)
IsLinkNever(apply) == FALSE

is_link(apply) == apply.mode.some /\ (apply.mode.val \div 4096) % 16 = 10

\* The test of StatApply::apply on the components of name.
\* (InvalidPathDotDotOnly: empty components are let through.)
InvalidPathDotDotOnly(name) ==
    \E i \in 1..Len(Split(name, 47)) : Split(name, 47)[i] = DotDot

InvalidPath(name) ==
    \E i \in 1..Len(Split(name, 47)) :
        Len(Split(name, 47)[i]) = 0 \/ Split(name, 47)[i] = DotDot

SysCall(call, name, arg, nofollow) ==
    [call |-> call, name |-> name, arg |-> arg, nofollow |-> nofollow]

\* The outcome of StatApply::apply and of the loops over it: the result, the
\* tree afterwards and the calls issued, in order.
Outcome(res, tree, calls) == [res |-> res, tree |-> tree, calls |-> calls]

\* StatApply::apply(name, follow) on the tree.
StatApply_apply(apply, name, follow_arg, tree) ==
    LET follow == follow_arg /\ ~is_link(apply)
        nofollow == ~follow
        doChmod == apply.mode.some /\ follow
        mode == IF doChmod THEN apply.mode.val % 512 ELSE 0
        ch == IF doChmod THEN chmodat(tree, name, mode, nofollow) ELSE Ok(tree)
        chCalls == IF doChmod THEN <<SysCall("chmodat", name, mode, nofollow)>>
                   ELSE <<>>
        ut == IF apply.mtime.some /\ ch.ok
                THEN utimensat(ch.val, name, apply.mtime.val, nofollow)
              ELSE ch
        utCalls == IF apply.mtime.some /\ ch.ok
                     THEN <<SysCall("utimensat", name, apply.mtime.val, nofollow)>>
                   ELSE <<>>
    IN  IF InvalidPath(name) THEN Outcome(Err("InvalidData"), tree, <<>>)
        ELSE IF ~ch.ok THEN Outcome(Err(ch.kind), tree, chCalls)
        ELSE IF ~ut.ok THEN Outcome(Err(ut.kind), ch.val, chCalls \o utCalls)
        ELSE Outcome(Ok(TRUE), ut.val, chCalls \o utCalls)

(***************************************************************************)
(* State                                                                   *)
(***************************************************************************)

VARIABLES
    c_pc,       \* SpecCodec: "input", "escaped" or "unescaped"
    c_name,     \* SpecCodec: the byte string given to escape
    c_escaped,  \* SpecCodec: escape(c_name), once computed
    c_result,   \* SpecCodec: unescape(c_escaped), once computed
    p_pc,       \* SpecParse: "input" or "parsed"
    p_line,     \* SpecParse: the line given to parse_line
    p_result,   \* SpecParse: parse_line(p_line), once computed
    a_pc,       \* SpecApply: "input" or "applied"
    a_apply,    \* SpecApply: the StatApply record
    a_name,     \* SpecApply: the path given to apply
    a_follow,   \* SpecApply: the follow flag given to apply
    a_result,   \* SpecApply: what apply returned, once it has
    fs,         \* the tree: name -> entry (SpecApply and Spec)
    calls,      \* the chmodat and utimensat calls issued, in order, by the
                \* last apply (SpecApply) or the running command (Spec)
    files,      \* Spec: the content of the snapshot file and of its
                \* temporary file, None for a file that does not exist
    pc,         \* Spec: where the running command is
    cmd,        \* Spec: the command line of the running or last command
    stat_file,  \* Spec: the table of the running command
    widx,       \* Spec: the index of the next entry write_stat_file writes
    buf,        \* Spec: what the BufWriter holds back
    result,     \* Spec: what add or apply returned, None while running
    attempted,  \* Spec: the entries apply has gone through, each with the
                \* name and whether it succeeded
    prev,       \* Spec: the snapshot file as the running command found it
    runs        \* Spec: the number of commands started

codecVars == <<c_pc, c_name, c_escaped, c_result>>
parseVars == <<p_pc, p_line, p_result>>
applyVars == <<a_pc, a_apply, a_name, a_follow, a_result>>
treeVars == <<fs, calls>>
cliVars == <<files, pc, cmd, stat_file, widx, buf, result, attempted, prev,
             runs>>

vars == <<codecVars, parseVars, applyVars, treeVars, cliVars>>

\* STATFILE, and the temporary file's name in write_stat_file.
STATFILE == ".filestat"

\* The file write_stat_file creates and writes.
\* (TmpNameInPlace: the snapshot file is written in place.)
TmpNameInPlace(filename) == filename

TmpName(filename) == filename \o ".tmp"

\* The values of the variables a specification does not use.
CodecIdle ==
    /\ c_pc = "off"
    /\ c_name = <<>>
    /\ c_escaped = None
    /\ c_result = None

ParseIdle ==
    /\ p_pc = "off"
    /\ p_line = <<>>
    /\ p_result = None

ApplyIdle ==
    /\ a_pc = "off"
    /\ a_apply = NewStatApply
    /\ a_name = <<>>
    /\ a_follow = FALSE
    /\ a_result = None

TreeIdle ==
    /\ fs = <<>>
    /\ calls = <<>>

CliIdle ==
    /\ files = <<>>
    /\ pc = "off"
    /\ cmd = None
    /\ stat_file = <<>>
    /\ widx = 0
    /\ buf = <<>>
    /\ result = None
    /\ attempted = <<>>
    /\ prev = None
    /\ runs = 0

\* The tree every run starts from: the regular files b and f, and the
\* symbolic link to b whose name is the one byte 0x7f (DEL).
FsInit ==
    (Bytes("b") :> FileEntry(33188, [sec |-> 5, nsec |-> 0]))
    @@ (Bytes("f") :> FileEntry(33152, [sec |-> -1, nsec |-> 999999999]))
    @@ (<<127>> :> LinkEntry(Bytes("b"), [sec |-> 7, nsec |-> 1]))

(***************************************************************************)
(* SpecCodec: escape, then unescape, on every bounded byte string          *)
(***************************************************************************)

\* The longest byte string given to escape.
MaxNameLen == 3

\* The bytes the names are made of: tab, '4', 'A', backslash, 'x', DEL, and
\* 0xc3 0xa7 (together the UTF-8 form of U+00E7, apart invalid UTF-8).
CodecBytes == {9, 52, 65, 92, 120, 127, 195, 167}

CodecInit ==
    /\ c_pc = "input"
    /\ c_name \in SeqsUpTo(CodecBytes, MaxNameLen)
    /\ c_escaped = None
    /\ c_result = None
    /\ ParseIdle /\ ApplyIdle /\ TreeIdle /\ CliIdle

Escape ==
    /\ c_pc = "input"
    /\ c_escaped' = Some(escape(c_name))
    /\ c_pc' = "escaped"
    /\ UNCHANGED <<c_name, c_result, parseVars, applyVars, treeVars, cliVars>>

Unescape ==
    /\ c_pc = "escaped"
    /\ c_result' = Some(unescape(c_escaped.val))
    /\ c_pc' = "unescaped"
    /\ UNCHANGED <<c_name, c_escaped, parseVars, applyVars, treeVars, cliVars>>

CodecNext == Escape \/ Unescape

SpecCodec == CodecInit /\ [][CodecNext]_vars

(***************************************************************************)
(* SpecParse: parse_line on bounded lines                                  *)
(***************************************************************************)

\* The most fields after the path in a line given to parse_line.
MaxFields == 2

\* The seconds, and what may follow them, of the mtime values tried.
SecInputs == {Bytes(""), Bytes("0"), Bytes("4321"), Bytes("-1"), Bytes("+7"),
              Bytes("1x")}

NsecInputs == {Bytes(""), Bytes("."), Bytes(".123456789"), Bytes(".000000000"),
               Bytes(".999999999"), Bytes(".12345678"), Bytes(".1234567890"),
               Bytes(".12345678x"), Bytes(".-00000001"), Bytes(".+00000001"),
               Bytes(".123456789."), Bytes(".123456789.5"), Bytes(".5.123456789")}

MtimeInputs == {sec \o nsec : sec \in SecInputs, nsec \in NsecInputs}

ModeInputs == {Bytes(""), Bytes("100644"), Bytes("120777"), Bytes("7"),
               Bytes("+755"), Bytes("-755"), Bytes("648"), <<55, 195>>}

FieldInputs ==
    {Bytes("foo"), Bytes("bar="), Bytes("baz=0"), Bytes(""), Bytes("mtime"),
     Bytes("=mode=7")}
    \cup {Bytes("mode=") \o m : m \in ModeInputs}
    \cup {Bytes("mtime=") \o m : m \in MtimeInputs}

\* The items joined behind the path, a tab before each.
RECURSIVE JoinFields(_)
JoinFields(items) ==
    IF Len(items) = 0 THEN <<>>
    ELSE <<9>> \o items[1] \o JoinFields(Tail(items))

ParseInit ==
    /\ p_pc = "input"
    /\ p_line \in {Bytes("name") \o JoinFields(items) :
                     items \in SeqsUpTo(FieldInputs, MaxFields)}
    /\ p_result = None
    /\ CodecIdle /\ ApplyIdle /\ TreeIdle /\ CliIdle

ParseLine ==
    /\ p_pc = "input"
    /\ p_result' = Some(parse_line(p_line))
    /\ p_pc' = "parsed"
    /\ UNCHANGED <<p_line, codecVars, applyVars, treeVars, cliVars>>

ParseNext == ParseLine

SpecParse == ParseInit /\ [][ParseNext]_vars

(***************************************************************************)
(* SpecApply: StatApply::apply on one record, path and follow flag         *)
(***************************************************************************)

\* The modes and times a record may carry: a regular file's, a symbolic
\* link's and bare permission bits; times as parse_line can produce them.
ApplyModes == {33188, 33152, 41471, 493}

ApplyMtimes == {[sec |-> 9, nsec |-> 0], [sec |-> -1, nsec |-> 123456789],
                [sec |-> 1, nsec |-> -1]}

\* The paths tried: entries of the tree, a missing one, and the shapes the
\* test on the path is about.
ApplyNames == {Bytes("b"), <<127>>, Bytes("f"), Bytes("gone"), Bytes("/root"),
               Bytes("../dir"), Bytes("a/../b"), Bytes("dir/.."), Bytes(""),
               Bytes(".."), Bytes("."), Bytes("a//b"), Bytes("b/"),
               Bytes("a/..b"), Bytes("...")}

OptionOf(S) == {None} \cup {Some(v) : v \in S}

ApplyInit ==
    /\ a_pc = "input"
    /\ a_apply \in [mode : OptionOf(ApplyModes), mtime : OptionOf(ApplyMtimes)]
    /\ a_name \in ApplyNames
    /\ a_follow \in BOOLEAN
    /\ a_result = None
    /\ fs = FsInit
    /\ calls = <<>>
    /\ CodecIdle /\ ParseIdle /\ CliIdle

Apply ==
    /\ a_pc = "input"
    /\ LET out == StatApply_apply(a_apply, a_name, a_follow, fs)
       IN  /\ a_result' = Some(out.res)
           /\ fs' = out.tree
           /\ calls' = out.calls
    /\ a_pc' = "applied"
    /\ UNCHANGED <<a_apply, a_name, a_follow, codecVars, parseVars, cliVars>>

ApplyNext == Apply

SpecApply == ApplyInit /\ [][ApplyNext]_vars

(***************************************************************************)
(* Spec: the commands add and apply                                        *)
(***************************************************************************)

\* The most commands started in a run.
MaxRuns == 2

\* The most lines of the snapshot file a run starts with.
MaxLines == 2

\* The most paths on a command line.
MaxNames == 2

\* The lines a snapshot file given to add may start with: an empty line;
\* two spellings of the path b, the first with a field unknown to
\* parse_line; a line with a bad escape.
StoredLines ==
    {Bytes(""),
     Bytes("b\tmode=100600\tmtime=9.000000000\tuid=1"),
     Bytes("\\x62\tmtime=3"),
     Bytes("\\q")}

\* The lines with a newline between each two.
RECURSIVE JoinLines(_)
JoinLines(lines) ==
    IF Len(lines) = 0 THEN <<>>
    ELSE IF Len(lines) = 1 THEN lines[1]
    ELSE lines[1] \o <<10>> \o JoinLines(Tail(lines))

FileInputs == {JoinLines(lines) : lines \in SeqsUpTo(StoredLines, MaxLines)}

\* The paths a command line may name: the file b, the link DEL, and a name
\* of nothing.
PathInputs == {Bytes("b"), <<127>>, Bytes("gone")}

NameLists == SeqsUpTo(PathInputs, MaxNames) \ {<<>>}

Init ==
    /\ files \in {(STATFILE :> f) @@ (TmpName(STATFILE) :> None) :
                    f \in OptionOf(FileInputs)}
    /\ fs = FsInit
    /\ calls = <<>>
    /\ pc = "idle"
    /\ cmd = None
    /\ stat_file = <<>>
    /\ widx = 0
    /\ buf = <<>>
    /\ result = None
    /\ attempted = <<>>
    /\ prev = None
    /\ runs = 0
    /\ CodecIdle /\ ParseIdle /\ ApplyIdle

\* read_stat_file(filename, create) on the files; io_error: the read fails
\* for another reason than the file's absence.
read_stat_file(fl, filename, create, io_error) ==
    IF io_error THEN Err("OS")
    ELSE IF ~fl[filename].some
      THEN (IF create THEN Ok(<<>>) ELSE Err("NotFound"))
    ELSE Ok(fl[filename].val)

\* The loop of add over the names from i on: the table with every name
\* captured, or the first error.
\* (CaptureSkipErrors: a name whose metadata cannot be read is passed over.)
RECURSIVE CaptureSkipErrors(_, _, _, _, _, _)
CaptureSkipErrors(names, i, t, follow, force, tree) ==
    IF i > Len(names) THEN Ok(t)
    ELSE LET metadata == ReadMetadata(tree, names[i], follow)
         IN  IF ~metadata.ok
               THEN CaptureSkipErrors(names, i + 1, t, follow, force, tree)
             ELSE IF TableHas(t, names[i]) /\ ~force
               THEN CaptureSkipErrors(names, i + 1, t, follow, force, tree)
             ELSE CaptureSkipErrors(names, i + 1,
                      TableInsert(t, names[i], make_line(names[i], metadata.val)),
                      follow, force, tree)

RECURSIVE CaptureAll(_, _, _, _, _, _)
CaptureAll(names, i, t, follow, force, tree) ==
    IF i > Len(names) THEN Ok(t)
    ELSE LET metadata == ReadMetadata(tree, names[i], follow)
         IN  IF ~metadata.ok THEN metadata
             ELSE IF TableHas(t, names[i]) /\ ~force
               THEN CaptureAll(names, i + 1, t, follow, force, tree)
             ELSE CaptureAll(names, i + 1,
                      TableInsert(t, names[i], make_line(names[i], metadata.val)),
                      follow, force, tree)

\* What starting a command resets.
StartCommand(c) ==
    /\ pc = "idle"
    /\ runs < MaxRuns
    /\ runs' = runs + 1
    /\ cmd' = Some(c)
    /\ prev' = files[STATFILE]
    /\ widx' = 0
    /\ buf' = <<>>

\* add, up to the call of write_stat_file: the file read and parsed, every
\* name captured into the table.
Add(follow, force, names, io_error) ==
    /\ StartCommand([name |-> "add", follow |-> follow, force |-> force,
                     files |-> Some(names)])
    /\ LET data == read_stat_file(files, STATFILE, TRUE, io_error)
           table == IF data.ok THEN parse_stat_file(data.val) ELSE data
           captured == IF table.ok
                         THEN CaptureAll(names, 1, table.val, follow, force, fs)
                       ELSE table
       IN  IF captured.ok
             THEN /\ stat_file' = captured.val
                  /\ result' = None
                  /\ pc' = "create"
           ELSE /\ stat_file' = <<>>
                /\ result' = Some(Err(captured.kind))
                /\ pc' = "done"
    /\ calls' = <<>>
    /\ attempted' = <<>>
    /\ UNCHANGED <<files, fs, codecVars, parseVars, applyVars>>

\* write_stat_file: File::create(&tmp).
CreateTmp ==
    /\ pc = "create"
    /\ files' = [files EXCEPT ![TmpName(STATFILE)] = Some(<<>>)]
    /\ widx' = 1
    /\ buf' = <<>>
    /\ pc' = "entries"
    /\ UNCHANGED <<fs, calls, cmd, stat_file, result, attempted, prev, runs,
                   codecVars, parseVars, applyVars>>

\* write_stat_file: one turn of the loop, the entry and a newline written
\* to the BufWriter, which passes on what it holds when it is full.
WriteEntry(full) ==
    /\ pc = "entries"
    /\ widx <= Len(stat_file)
    /\ LET held == buf \o stat_file[widx][2] \o <<10>>
       IN  IF full
             THEN /\ files' = [files EXCEPT
                                 ![TmpName(STATFILE)] = Some(@.val \o held)]
                  /\ buf' = <<>>
           ELSE /\ buf' = held
                /\ UNCHANGED files
    /\ widx' = widx + 1
    /\ UNCHANGED <<fs, calls, pc, cmd, stat_file, result, attempted, prev,
                   runs, codecVars, parseVars, applyVars>>

\* write_stat_file: file.into_inner()?.sync_all()?, the file then closed.
SyncAll ==
    /\ pc = "entries"
    /\ widx > Len(stat_file)
    /\ files' = [files EXCEPT ![TmpName(STATFILE)] = Some(@.val \o buf)]
    /\ buf' = <<>>
    /\ pc' = "rename"
    /\ UNCHANGED <<fs, calls, cmd, stat_file, widx, result, attempted, prev,
                   runs, codecVars, parseVars, applyVars>>

\* write_stat_file: rename(tmp, filename), and add's return.
Rename ==
    /\ pc = "rename"
    /\ files' = [n \in DOMAIN files |->
                   IF n = STATFILE THEN files[TmpName(STATFILE)]
                   ELSE IF n = TmpName(STATFILE) THEN None
                   ELSE files[n]]
    /\ result' = Some(Ok("SUCCESS"))
    /\ pc' = "done"
    /\ UNCHANGED <<fs, calls, cmd, stat_file, widx, buf, attempted, prev, runs,
                   codecVars, parseVars, applyVars>>

\* A step of write_stat_file fails: the error is add's result.  What the
\* BufWriter holds is dropped with it.
WriteError ==
    /\ pc \in {"create", "entries", "rename"}
    /\ result' = Some(Err("OS"))
    /\ buf' = <<>>
    /\ pc' = "done"
    /\ UNCHANGED <<files, fs, calls, cmd, stat_file, widx, attempted, prev,
                   runs, codecVars, parseVars, applyVars>>

\* The process is stopped in write_stat_file: the files stay as they are.
Crash ==
    /\ pc \in {"create", "entries", "rename"}
    /\ buf' = <<>>
    /\ pc' = "crashed"
    /\ UNCHANGED <<files, fs, calls, cmd, stat_file, widx, result, attempted,
                   prev, runs, codecVars, parseVars, applyVars>>

\* The process is gone: what it held in memory is gone with it, the files
\* and the tree stay.
Exit ==
    /\ pc \in {"done", "crashed"}
    /\ pc' = "idle"
    /\ cmd' = None
    /\ stat_file' = <<>>
    /\ widx' = 0
    /\ buf' = <<>>
    /\ result' = None
    /\ attempted' = <<>>
    /\ prev' = None
    /\ calls' = <<>>
    /\ UNCHANGED <<files, fs, runs, codecVars, parseVars, applyVars>>

\* The outcome of the loops of apply: the tree, the calls, and the entries
\* gone through.
Batch(tree, cs, done) == [tree |-> tree, calls |-> cs, attempted |-> done]

\* One entry of apply: parse_line(line)?.apply(name, follow).
ApplyParsed(apply, name, follow, tree) ==
    IF apply.ok THEN StatApply_apply(apply.val, name, follow, tree)
    ELSE Outcome(apply, tree, <<>>)

ApplyEntry(name, line, follow, tree) ==
    ApplyParsed(parse_line(line), name, follow, tree)

\* The batch after the attempt of one entry: .unwrap_or_else(&mut error).
Attempt(b, name, out) ==
    Batch(out.tree, b.calls \o out.calls,
          Append(b.attempted, [name |-> name, ok |-> out.res.ok]))

\* The loop of apply over the table, from entry i on.
\* (ApplyTableStop: the loop ends at the first entry that fails.)
RECURSIVE ApplyTableStop(_, _, _, _)
ApplyTableStop(t, i, follow, b) ==
    IF i > Len(t) \/ \E k \in 1..Len(b.attempted) : ~b.attempted[k].ok THEN b
    ELSE ApplyTableStop(t, i + 1, follow,
                        Attempt(b, t[i][1],
                                ApplyEntry(t[i][1], t[i][2], follow, b.tree)))

RECURSIVE ApplyTable(_, _, _, _)
ApplyTable(t, i, follow, b) ==
    IF i > Len(t) THEN b
    ELSE ApplyTable(t, i + 1, follow,
                    Attempt(b, t[i][1],
                            ApplyEntry(t[i][1], t[i][2], follow, b.tree)))

\* One requested name of apply: a name the table does not hold is an error
\* of that name.
ApplyLookup(line, name, follow, tree) ==
    IF line.some THEN ApplyEntry(name, line.val, follow, tree)
    ELSE Outcome(Err("InvalidInput"), tree, <<>>)

\* The loop of apply over the names of the command line, from name i on.
RECURSIVE ApplyNamed(_, _, _, _, _)
ApplyNamed(t, names, i, follow, b) ==
    IF i > Len(names) THEN b
    ELSE ApplyNamed(t, names, i + 1, follow,
                    Attempt(b, names[i],
                            ApplyLookup(TableGet(t, names[i]), names[i],
                                        follow, b.tree)))

\* The table of the snapshot file read, or the error of the read.
ParseRead(data) == IF data.ok THEN parse_stat_file(data.val) ELSE data

\* The loops of apply, on the table parsed.
ApplyLoops(table, follow, names) ==
    IF ~table.ok THEN Batch(fs, <<>>, <<>>)
    ELSE IF names.some
      THEN ApplyNamed(table.val, names.val, 1, follow, Batch(fs, <<>>, <<>>))
    ELSE ApplyTable(table.val, 1, follow, Batch(fs, <<>>, <<>>))

\* What apply returns: the error of the read or of the parse, or the exit
\* code, FAILURE once an entry has failed.
ApplyReturn(table, b) ==
    /\ stat_file' = IF table.ok THEN table.val ELSE <<>>
    /\ fs' = b.tree
    /\ calls' = b.calls
    /\ attempted' = b.attempted
    /\ result' = IF ~table.ok THEN Some(Err(table.kind))
                 ELSE IF \E i \in 1..Len(b.attempted) : ~b.attempted[i].ok
                   THEN Some(Ok("FAILURE"))
                 ELSE Some(Ok("SUCCESS"))

ApplyParsedFile(table, follow, names) ==
    ApplyReturn(table, ApplyLoops(table, follow, names))

\* apply: the file read and parsed, then every entry of the table, or every
\* name of the command line, gone through.
ApplyCmd(follow, names, io_error) ==
    /\ StartCommand([name |-> "apply", follow |-> follow, force |-> FALSE,
                     files |-> names])
    /\ ApplyParsedFile(ParseRead(read_stat_file(files, STATFILE, FALSE, io_error)),
                       follow, names)
    /\ pc' = "done"
    /\ UNCHANGED <<files, codecVars, parseVars, applyVars>>

Next ==
    \/ \E follow \in BOOLEAN, force \in BOOLEAN, names \in NameLists,
          io_error \in BOOLEAN : Add(follow, force, names, io_error)
    \/ CreateTmp
    \/ \E full \in BOOLEAN : WriteEntry(full)
    \/ SyncAll
    \/ Rename
    \/ WriteError
    \/ Crash
    \/ Exit

Spec == Init /\ [][Next]_vars

(***************************************************************************)
(* SpecRestore: one apply command on every bounded snapshot file           *)
(***************************************************************************)

\* The lines a snapshot file given to apply may hold: the file b with a
\* field unknown to parse_line; the link DEL, escaped; a path apply
\* refuses; a name of nothing; a mode parse_line refuses; a bad escape.
RestoreLines ==
    {Bytes("b\tmode=100600\tmtime=9.000000000\tuid=1"),
     Bytes("\\x7f\tmode=120777\tmtime=7.000000001"),
     Bytes("../x\tmode=777"),
     Bytes("gone\tmtime=3"),
     Bytes("f\tmode=8"),
     Bytes("\\q")}

RestoreFiles == {JoinLines(lines) : lines \in SeqsUpTo(RestoreLines, MaxLines)}

RestoreInit ==
    /\ files \in {(STATFILE :> f) @@ (TmpName(STATFILE) :> None) :
                    f \in OptionOf(RestoreFiles)}
    /\ fs = FsInit
    /\ calls = <<>>
    /\ pc = "idle"
    /\ cmd = None
    /\ stat_file = <<>>
    /\ widx = 0
    /\ buf = <<>>
    /\ result = None
    /\ attempted = <<>>
    /\ prev = None
    /\ runs = 0
    /\ CodecIdle /\ ParseIdle /\ ApplyIdle

RestoreNext ==
    \/ \E follow \in BOOLEAN, names \in OptionOf(NameLists),
          io_error \in BOOLEAN : runs = 0 /\ ApplyCmd(follow, names, io_error)
    \/ Exit

SpecRestore == RestoreInit /\ [][RestoreNext]_vars

(***************************************************************************)
(* Properties                                                              *)
(***************************************************************************)

\* Whether name, split on '/', has an empty component or a component "..",
\* stated on the positions of the bytes.
HasBadSegment(name) ==
    \/ Len(name) = 0
    \/ name[1] = 47
    \/ name[Len(name)] = 47
    \/ \E i \in 1..(Len(name) - 1) : name[i] = 47 /\ name[i + 1] = 47
    \/ \E i \in 1..(Len(name) - 1) :
         /\ name[i] = 46 /\ name[i + 1] = 46
         /\ (i = 1 \/ name[i - 1] = 47)
         /\ (i + 1 = Len(name) \/ name[i + 2] = 47)

NoControlBytes(name) == \A i \in 1..Len(name) : name[i] >= 32 /\ name[i] # 127

\* C1: for every byte string b, unescape(escape(b)) succeeds and returns b.
RoundTrip == c_pc = "unescaped" => c_result.val = Ok(c_name)

\* A name with a control byte, a backslash and a byte that is not UTF-8 has
\* gone through escape, which rewrote it, and unescape.
RoundTripWitness ==
    /\ c_pc = "unescaped"
    /\ c_name = <<9, 92, 195>>
    /\ c_escaped.val = Bytes("\\x09\\\\\\xc3")

\* C6 as stated: escape is the identity on every valid UTF-8 byte string
\* without ASCII control bytes.
EscapeIdentityOnText ==
    (c_pc = "escaped" /\ Utf8Valid(c_name) /\ NoControlBytes(c_name))
        => c_escaped.val = c_name

\* C6, amended: escape is the identity on every valid UTF-8 byte string
\* without ASCII control bytes and without a backslash.
EscapeIdentityNoBackslash ==
    (/\ c_pc = "escaped"
     /\ Utf8Valid(c_name)
     /\ NoControlBytes(c_name)
     /\ \A i \in 1..Len(c_name) : c_name[i] # 92)
        => c_escaped.val = c_name

\* A name with a two-byte UTF-8 character has gone through escape unchanged.
EscapeIdentityWitness ==
    /\ c_pc = "escaped"
    /\ c_name = <<65, 195, 167>>
    /\ c_escaped.val = c_name

\* Whether every byte of s is a decimal digit.
AllDigits(s) == \A i \in 1..Len(s) : s[i] >= 48 /\ s[i] <= 57

\* Whether data has the form SECONDS or SECONDS.NANOSECONDS: the seconds a
\* signed run of digits, the nanoseconds exactly nine digits.
MtimeForm(data) ==
    LET parts == Split(data, 46)
        sec == IF Len(parts[1]) > 0 /\ parts[1][1] \in {43, 45}
                 THEN Tail(parts[1]) ELSE parts[1]
    IN  /\ Len(parts) <= 2
        /\ Len(sec) > 0 /\ AllDigits(sec)
        /\ Len(parts) = 2 => (Len(parts[2]) = 9 /\ AllDigits(parts[2]))

\* The data of the mtime fields of a line.
MtimeFields(line) ==
    LET items == Split(line, 9)
    IN  {SubSeq(items[i], 7, Len(items[i])) :
           i \in {j \in 2..Len(items) :
                    Len(items[j]) >= 6 /\ SubSeq(items[j], 1, 6) = MtimeKey}}

\* C10: parse_line accepts an mtime field only of the form SECONDS or
\* SECONDS.NANOSECONDS with exactly nine digits of nanoseconds, so that the
\* nanoseconds it returns are in 0..999999999.
MtimeNineDigits ==
    (p_pc = "parsed" /\ p_result.val.ok)
        => /\ \A data \in MtimeFields(p_line) : MtimeForm(data)
           /\ p_result.val.val.mtime.some
                => /\ p_result.val.val.mtime.val.nsec >= 0
                   /\ p_result.val.val.mtime.val.nsec <= 999999999

\* C5: apply refuses with InvalidData every path with an empty or ".."
\* component, whatever the record and the follow flag, before any call:
\* the tree is as it was.
InvalidPathRejected ==
    (a_pc = "applied" /\ HasBadSegment(a_name))
        => /\ a_result.val = Err("InvalidData")
           /\ calls = <<>>
           /\ fs = FsInit

\* apply was given a/../b with a mode and a time to set, following links.
InvalidPathWitness ==
    /\ a_pc = "applied"
    /\ a_name = Bytes("a/../b")
    /\ a_follow
    /\ a_apply.mode.some /\ a_apply.mtime.some
    /\ a_result.val = Err("InvalidData")

\* follow_requested AND NOT (mode present and mode & 0o170000 = 0o120000)
EffectiveFollow ==
    a_follow /\ ~(a_apply.mode.some /\ (a_apply.mode.val \div 4096) % 16 = 10)

CallsOf(kind) == SelectSeq(calls, LAMBDA c : c.call = kind)

\* What C9 says of the change-mode call, and of the flag of the set-times
\* call.
ChmodAsClaimed ==
    /\ Len(CallsOf("chmodat")) = (IF a_apply.mode.some /\ EffectiveFollow THEN 1 ELSE 0)
    /\ \A i \in 1..Len(CallsOf("chmodat")) :
         /\ CallsOf("chmodat")[i].name = a_name
         /\ CallsOf("chmodat")[i].arg = a_apply.mode.val % 512
         /\ ~CallsOf("chmodat")[i].nofollow
    /\ \A i \in 1..Len(CallsOf("utimensat")) :
         /\ CallsOf("utimensat")[i].name = a_name
         /\ CallsOf("utimensat")[i].arg = a_apply.mtime.val
         /\ CallsOf("utimensat")[i].nofollow = ~EffectiveFollow

\* C9 as stated: for a path that passes the test, the change-mode call is
\* issued iff the mode is present and effective_follow holds, with
\* mode & 0o777; the set-times call is issued iff the mtime is present, with
\* the no-follow flag iff effective_follow does not hold.
ApplyCallsAsStated ==
    (a_pc = "applied" /\ ~HasBadSegment(a_name))
        => /\ ChmodAsClaimed
           /\ Len(CallsOf("utimensat")) = (IF a_apply.mtime.some THEN 1 ELSE 0)

\* C9, amended: the set-times call is issued iff the mtime is present and
\* no change-mode call has failed; apply returns the error of a failed
\* change-mode call at once.
ApplyCalls ==
    (a_pc = "applied" /\ ~HasBadSegment(a_name))
        => LET chmodFailed ==
                   /\ a_apply.mode.some /\ EffectiveFollow
                   /\ ~chmodat(FsInit, a_name, a_apply.mode.val % 512, FALSE).ok
           IN  /\ ChmodAsClaimed
               /\ Len(CallsOf("utimensat")) =
                      (IF a_apply.mtime.some /\ ~chmodFailed THEN 1 ELSE 0)
               /\ chmodFailed => ~a_result.val.ok

\* apply was asked to follow links for the link DEL with a record whose
\* mode marks a symbolic link: the times of the link itself were set, the
\* mode and the link's target left alone.
ApplyCallsWitness ==
    /\ a_pc = "applied"
    /\ a_name = <<127>>
    /\ a_follow
    /\ a_apply.mode = Some(41471)
    /\ a_apply.mtime = Some([sec |-> 9, nsec |-> 0])
    /\ Len(calls) = 1
    /\ calls[1].call = "utimensat" /\ calls[1].name = <<127>>
    /\ calls[1].nofollow
    /\ fs[<<127>>].mtime = Some([sec |-> 9, nsec |-> 0])
    /\ fs[Bytes("b")] = FsInit[Bytes("b")]

AddDone == pc = "done" /\ cmd.some /\ cmd.val.name = "add"

AddOk == AddDone /\ result.val.ok

\* The table of the snapshot file the command found.
PrevTable == parse_stat_file(IF prev.some THEN prev.val ELSE <<>>)

\* The table of the snapshot file as it is now.
NowTable == parse_stat_file(files[STATFILE].val)

\* The line add makes of a name's metadata, as the command line asks.
Captured(name) ==
    make_line(name, ReadMetadata(fs, name, cmd.val.follow).val)

\* C2: while write_stat_file runs, and after it ended in whatever way, the
\* snapshot file holds its complete previous content or the complete new
\* content, the latter not before the rename.
AtomicRewrite ==
    (cmd.some /\ cmd.val.name = "add")
        => \/ files[STATFILE] = prev
           \/ /\ pc = "done" /\ result.val.ok
              /\ files[STATFILE] = Some(EntryBytes(stat_file, 1))

\* write_stat_file has written one entry of two to the temporary file; the
\* snapshot file holds its previous content, which is not the new one.
AtomicRewriteWitness ==
    /\ pc = "entries"
    /\ Len(stat_file) = 2 /\ widx = 2
    /\ files[TmpName(STATFILE)] = Some(stat_file[1][2] \o <<10>>)
    /\ prev.some
    /\ files[STATFILE] = prev
    /\ prev.val # EntryBytes(stat_file, 1)

\* Common to C3 as stated and as amended: add fails when the metadata of a
\* requested path cannot be read, and a failed add leaves the snapshot file
\* as it found it.
AddFailsWhole ==
    /\ AddOk => \A i \in 1..Len(cmd.val.files.val) :
                  ReadMetadata(fs, cmd.val.files.val[i], cmd.val.follow).ok
    /\ (AddDone /\ ~result.val.ok) => files[STATFILE] = prev

\* C3 as stated: add is all or nothing; after an add that succeeded the
\* snapshot file holds the metadata captured for every requested path.
AddAllOrNothingAsStated ==
    /\ AddFailsWhole
    /\ AddOk => \A i \in 1..Len(cmd.val.files.val) :
                  LET name == cmd.val.files.val[i]
                  IN  TableGet(NowTable.val, name) = Some(Captured(name))

\* C3, amended: after an add that succeeded the snapshot file holds, for
\* every requested path, the metadata captured for it if the path was not in
\* the table or --force was given, and else the line the table had.
AddAllOrNothing ==
    /\ AddFailsWhole
    /\ AddOk => \A i \in 1..Len(cmd.val.files.val) :
                  LET name == cmd.val.files.val[i]
                  IN  TableGet(NowTable.val, name) =
                        (IF cmd.val.force \/ ~TableHas(PrevTable.val, name)
                           THEN Some(Captured(name))
                         ELSE TableGet(PrevTable.val, name))

\* add without --force has succeeded for b, which the table had with other
\* metadata, and for DEL, which it had not.
AddAllOrNothingWitness ==
    /\ AddOk
    /\ ~cmd.val.force
    /\ cmd.val.files.val = <<Bytes("b"), <<127>>>>
    /\ TableHas(PrevTable.val, Bytes("b"))
    /\ TableGet(PrevTable.val, Bytes("b")) # Some(Captured(Bytes("b")))
    /\ TableGet(NowTable.val, <<127>>) = Some(Captured(<<127>>))

\* Whether add has replaced the line of this path.
Overwritten(path) ==
    cmd.val.force /\ \E i \in 1..Len(cmd.val.files.val) : cmd.val.files.val[i] = path

PathOf(line) == unescape(Split(line, 9)[1]).val

\* C7 as stated: after an add that succeeded, every non-empty line of the
\* previous snapshot file whose entry add has not overwritten is a line of
\* the new file, byte for byte.
LinesKeptAsStated ==
    (AddOk /\ prev.some)
        => \A i \in 1..Len(NonEmptyLines(prev.val)) :
             LET line == NonEmptyLines(prev.val)[i]
             IN  \/ Overwritten(PathOf(line))
                 \/ \E j \in 1..Len(NonEmptyLines(files[STATFILE].val)) :
                      NonEmptyLines(files[STATFILE].val)[j] = line

\* C7, amended: the same of every non-empty line that is the last line of
\* the previous file with its path.
LinesKept ==
    (AddOk /\ prev.some)
        => \A i \in 1..Len(NonEmptyLines(prev.val)) :
             LET lines == NonEmptyLines(prev.val)
             IN  \/ Overwritten(PathOf(lines[i]))
                 \/ \E k \in (i + 1)..Len(lines) : PathOf(lines[k]) = PathOf(lines[i])
                 \/ \E j \in 1..Len(NonEmptyLines(files[STATFILE].val)) :
                      NonEmptyLines(files[STATFILE].val)[j] = lines[i]

\* add has succeeded for DEL on a file whose one line, for b, has a field
\* unknown to parse_line: the new file has that line and the line of DEL.
LinesKeptWitness ==
    /\ AddOk
    /\ prev = Some(Bytes("b\tmode=100600\tmtime=9.000000000\tuid=1"))
    /\ cmd.val.files.val = << <<127>> >>
    /\ Len(NonEmptyLines(files[STATFILE].val)) = 2
    /\ NonEmptyLines(files[STATFILE].val)[1] = prev.val

\* C8: after every add that succeeded, the lines of the snapshot file are in
\* strictly increasing order of their unescaped paths, bytewise; no two
\* lines have one path.
FileSorted ==
    AddOk
        => LET lines == NonEmptyLines(files[STATFILE].val)
           IN  /\ \A i \in 1..Len(lines) : unescape(Split(lines[i], 9)[1]).ok
               /\ \A i \in 1..(Len(lines) - 1) :
                    BytesLess(PathOf(lines[i]), PathOf(lines[i + 1]))

\* The second add of a run has succeeded; the file has the line of b before
\* the line of DEL, although the escaped path of DEL, which starts with a
\* backslash, is bytewise before b.
FileSortedWitness ==
    /\ AddOk
    /\ runs = 2
    /\ LET lines == NonEmptyLines(files[STATFILE].val)
       IN  /\ Len(lines) = 2
           /\ PathOf(lines[1]) = Bytes("b")
           /\ PathOf(lines[2]) = <<127>>
           /\ BytesLess(lines[2], lines[1])

ApplyDone ==
    pc = "done" /\ cmd.some /\ cmd.val.name = "apply" /\ result.val.ok

\* C4: once the snapshot file is read and parsed, apply goes through every
\* entry of the table, or every requested path, in order, whatever failed
\* before; a requested path the table does not hold fails; an entry that
\* succeeded had its time set; and apply reports FAILURE iff an entry
\* failed.
ApplyBestEffort ==
    ApplyDone
        => LET table == parse_stat_file(files[STATFILE].val).val
               wanted == IF cmd.val.files.some THEN cmd.val.files.val
                         ELSE [i \in 1..Len(table) |-> table[i][1]]
           IN  /\ Len(attempted) = Len(wanted)
               /\ \A i \in 1..Len(wanted) :
                    /\ attempted[i].name = wanted[i]
                    /\ ~TableHas(table, wanted[i]) => ~attempted[i].ok
                    /\ HasBadSegment(wanted[i]) => ~attempted[i].ok
                    /\ (/\ attempted[i].ok
                        /\ parse_line(TableGet(table, wanted[i]).val).val.mtime.some)
                         => \E k \in 1..Len(calls) :
                              calls[k].call = "utimensat" /\ calls[k].name = wanted[i]
               /\ result.val.val =
                    (IF \E i \in 1..Len(attempted) : ~attempted[i].ok
                       THEN "FAILURE" ELSE "SUCCESS")

\* apply went through a table of two entries: the first, ../x, was refused,
\* the second, b, had its mode and time set; apply reported FAILURE.
ApplyBestEffortWitness ==
    /\ ApplyDone
    /\ ~cmd.val.files.some
    /\ Len(attempted) = 2
    /\ attempted[1] = [name |-> Bytes("../x"), ok |-> FALSE]
    /\ attempted[2] = [name |-> Bytes("b"), ok |-> TRUE]
    /\ fs[Bytes("b")].mode = 33152
    /\ fs[Bytes("b")].mtime = Some([sec |-> 9, nsec |-> 0])
    /\ result = Some(Ok("FAILURE"))

=============================================================================
